---- MODULE Spec2Model ----
(***************************************************************************)
(* Admission control and request forwarding of the GPU LLM API gateway     *)
(* (api/app/main.py): the semaphore `sema`, the bounded `wait_queue`, the  *)
(* gauges ACTIVE and QUEUE_DEPTH, and the handler v1_chat_completions with *)
(* its unary path and its streaming generator stream_proxy.                *)
(*                                                                         *)
(* One action is one run of a request's coroutine between two suspension   *)
(* points of the single-threaded event loop.  The asyncio primitives are   *)
(* modelled by what CPython does: Semaphore keeps a counter and a FIFO of  *)
(* waiter futures, release() hands the slot to the first pending waiter,   *)
(* wait_for(coro, timeout=0.0) cancels the coroutine before it starts, and *)
(* Queue(maxsize=0) is unbounded.  CancelledError and GeneratorExit are    *)
(* BaseExceptions: `except Exception` does not catch them.                 *)
(***************************************************************************)
EXTENDS Integers, Sequences, FiniteSets, TLC

\* ---------------------------------------------------------------- bounds
NumReq == 3
MaxClock == 1
MaxChunks == 1
MaxStreams == 1

Requests == 1..NumReq

\* Status codes the backend may answer with.
BackendStatuses == {200, 500}

NoTicket == -1

\* The deployments checked: MAX_ACTIVE, QUEUE_MODE, QUEUE_MAX of load_settings.
Configs ==
    {[max_active |-> 1, queue_mode |-> "queue", queue_max |-> 0],
     [max_active |-> 1, queue_mode |-> "queue", queue_max |-> 1],
     [max_active |-> 2, queue_mode |-> "queue", queue_max |-> 1],
     [max_active |-> 1, queue_mode |-> "reject", queue_max |-> 1],
     [max_active |-> 2, queue_mode |-> "reject", queue_max |-> 0]}

VARIABLES
    S,            \* Settings: max_active, queue_mode, queue_max
    sema,         \* asyncio.Semaphore: value, waiters (FIFO of requests), fut
    wait_queue,   \* asyncio.Queue of enqueue timestamps
    clock,        \* last reading of time.monotonic()
    ACTIVE,       \* gauge api_active_requests
    QUEUE_DEPTH,  \* gauge api_queue_depth
    req           \* per request: position in the handler and what it did

vars == <<S, sema, wait_queue, clock, ACTIVE, QUEUE_DEPTH, req>>

Min(a, b) == IF a < b THEN a ELSE b

\* ------------------------------------------------------------ wait_queue
\* asyncio.Queue.full(): a queue built with maxsize <= 0 is never full.
QueueFull(q) == IF S.queue_max <= 0 THEN FALSE ELSE Len(q) >= S.queue_max

\* The scan of _drain_one: skip the first item equal to wait_start.
RECURSIVE Kept(_, _, _)
Kept(items, wait_start, removed) ==
    IF items = <<>> THEN <<>>
    ELSE IF (~removed) /\ Head(items) = wait_start
         THEN Kept(Tail(items), wait_start, TRUE)
         ELSE <<Head(items)>> \o Kept(Tail(items), wait_start, removed)

\* The re-enqueue loop of _drain_one: put_nowait until the queue is full.
RECURSIVE PutBack(_, _)
PutBack(q, kept) ==
    IF kept = <<>> THEN q
    ELSE IF QueueFull(q) THEN q
         ELSE PutBack(Append(q, Head(kept)), Tail(kept))

DrainAllMatching(q, wait_start) ==
    SelectSeq(q, LAMBDA item : item # wait_start)

_drain_one(q, wait_start) == PutBack(<<>>, Kept(q, wait_start, FALSE))

\* QUEUE_DEPTH.set(wait_queue.qsize()): the gauge's new value.
QueueDepthStale(q) == QUEUE_DEPTH

QueueDepthSet(q) == Len(q)

\* ------------------------------------------------------------- semaphore
HasPending(sm) == \E i \in 1..Len(sm.waiters) : sm.fut[sm.waiters[i]] = "pending"

FirstPending(sm) ==
    sm.waiters[CHOOSE i \in 1..Len(sm.waiters) :
                  /\ sm.fut[sm.waiters[i]] = "pending"
                  /\ \A j \in 1..(i - 1) : sm.fut[sm.waiters[j]] # "pending"]

\* Semaphore._wake_up_next: the first waiter that is not done gets the slot.
WakeUpNext(sm) ==
    IF HasPending(sm)
    THEN [sm EXCEPT !.value = @ - 1, !.fut[FirstPending(sm)] = "set"]
    ELSE sm

\* The loop that ends Semaphore.acquire: wake waiters while value > 0.
RECURSIVE WakeLoop(_)
WakeLoop(sm) ==
    IF sm.value > 0 /\ HasPending(sm) THEN WakeLoop(WakeUpNext(sm)) ELSE sm

\* Semaphore.locked
Locked(sm) ==
    \/ sm.value = 0
    \/ \E i \in 1..Len(sm.waiters) : sm.fut[sm.waiters[i]] # "cancelled"

ReleaseTwice(sm) ==
    WakeUpNext([WakeUpNext([sm EXCEPT !.value = @ + 1]) EXCEPT !.value = @ + 1])

\* Semaphore.release
Release(sm) == WakeUpNext([sm EXCEPT !.value = @ + 1])

\* Semaphore.acquire up to its first suspension: take the slot when the
\* semaphore is not locked, else queue a waiter future.
AcquireStart(sm, r) ==
    IF ~Locked(sm)
    THEN [sm EXCEPT !.value = @ - 1]
    ELSE [sm EXCEPT !.waiters = Append(@, r), !.fut[r] = "pending"]

RemoveWaiter(w, r) == SelectSeq(w, LAMBDA x : x # r)

AcquireResumeNoUndo(sm, r, cancelled) ==
    WakeLoop([sm EXCEPT !.waiters = RemoveWaiter(@, r), !.fut[r] = "none"])

\* Semaphore.acquire from the wake-up of its future to its end.  cancelled
\* is TRUE when the task resumes with CancelledError.
AcquireResume(sm, r, cancelled) ==
    LET s1 == [sm EXCEPT !.waiters = RemoveWaiter(@, r), !.fut[r] = "none"]
        s2 == IF cancelled /\ sm.fut[r] = "set"
              THEN [s1 EXCEPT !.value = @ + 1]
              ELSE s1
    IN WakeLoop(s2)

\* asyncio.wait_for(sema.acquire(), timeout=0.0): the coroutine is wrapped
\* in a task that is cancelled before its first step, so the acquisition
\* never happens and TimeoutError is raised.
ImmediateAcquire(sm) == FALSE

\* S.queue_mode == "reject"
NeverRejectMode(mode) == FALSE

IsRejectMode(mode) == mode = "reject"

\* ---------------------------------------------------------------- state
NewReq ==
    [pc |-> "new", stream |-> FALSE, wait_start |-> NoTicket,
     must_cancel |-> "none", status_for_metrics |-> 200,
     resp |-> 0, message |-> "", retry_after |-> 0,
     frames |-> <<>>, chunks |-> 0,
     labels |-> <<>>, finalized |-> 0, acquired |-> 0, released |-> 0,
     enqueued |-> 0, drained |-> 0, handed_back |-> 0,
     event_status |-> 0, failed |-> FALSE]

Init ==
    /\ S \in Configs
    /\ sema = [value |-> S.max_active, waiters |-> <<>>,
               fut |-> [r \in Requests |-> "none"]]
    /\ wait_queue = <<>>
    /\ clock = 0
    /\ ACTIVE = 0
    /\ QUEUE_DEPTH = 0
    /\ req = [r \in Requests |-> NewReq]

\* An HTTPError raised by acquire_slot_or_queue and answered by the handler.
Rejected(rq, status, message, retry_after) ==
    [rq EXCEPT !.pc = "done", !.resp = status, !.message = message,
               !.retry_after = retry_after, !.labels = Append(@, status)]

\* The values of body.get("stream") still to be seen: at most MaxStreams
\* requests of a run ask for a streamed response.  The flag is read before
\* the admission and first used after it.
StreamChoices ==
    IF Cardinality({p \in Requests : req[p].stream}) < MaxStreams
    THEN BOOLEAN ELSE {FALSE}

\* From the return of acquire_slot_or_queue to the next suspension of the
\* handler: set the gauges and start the backend call.  q is the wait queue
\* as acquire_slot_or_queue left it.
Admit(r, rq, sm, q) ==
    \E stream \in StreamChoices :
        /\ sema' = sm
        /\ wait_queue' = q
        /\ QUEUE_DEPTH' = QueueDepthSet(q)
        /\ ACTIVE' = ACTIVE + 1
        /\ req' = [req EXCEPT ![r] =
                      [rq EXCEPT !.pc = IF stream THEN "s_open" ELSE "post",
                                 !.stream = stream,
                                 !.wait_start = NoTicket,
                                 !.acquired = @ + 1,
                                 !.resp = IF stream THEN 200 ELSE 0]]

\* finalize(status)
finalizeKeepActive(r, rq, status, pc) ==
    /\ req' = [req EXCEPT ![r] = [rq EXCEPT !.pc = pc, !.labels = Append(@, status),
                                            !.finalized = @ + 1, !.released = @ + 1]]
    /\ sema' = Release(sema)
    /\ QUEUE_DEPTH' = QueueDepthSet(wait_queue)
    /\ UNCHANGED <<S, wait_queue, clock, ACTIVE>>

finalize(r, rq, status, pc) ==
    /\ req' = [req EXCEPT ![r] =
                  [rq EXCEPT !.pc = pc, !.labels = Append(@, status),
                             !.finalized = @ + 1, !.released = @ + 1]]
    /\ ACTIVE' = ACTIVE - 1
    /\ sema' = Release(sema)
    /\ QUEUE_DEPTH' = QueueDepthSet(wait_queue)
    /\ UNCHANGED <<S, wait_queue, clock>>

\* ---------------------------------------------------------------- actions
ArriveBadJsonCounted(r) ==
    /\ req[r].pc = "new"
    /\ \A p \in 1..(r - 1) : req[p].pc # "new"
    /\ req' = [req EXCEPT ![r] = Rejected(@, 400, "invalid_json", 0)]
    /\ ACTIVE' = ACTIVE + 1
    /\ UNCHANGED <<S, sema, wait_queue, clock, QUEUE_DEPTH>>

\* A request with a body that is not JSON: 400 before any admission.
ArriveBadJson(r) ==
    /\ req[r].pc = "new"
    /\ \A p \in 1..(r - 1) : req[p].pc # "new"
    /\ req' = [req EXCEPT ![r] = Rejected(@, 400, "invalid_json", 0)]
    /\ UNCHANGED <<S, sema, wait_queue, clock, ACTIVE, QUEUE_DEPTH>>

\* The readings time.monotonic() may give at line 112: the last reading
\* again or a later one.  A later reading differs from the last only when a
\* ticket with the last reading is still queued.
Readings ==
    IF \E i \in 1..Len(wait_queue) : wait_queue[i] = clock
    THEN clock..Min(clock + 1, MaxClock)
    ELSE {clock}

\* A request arrives: from the start of v1_chat_completions through
\* acquire_slot_or_queue to the handler's first suspension or its answer.
Arrive(r) ==
    /\ req[r].pc = "new"
    /\ \A p \in 1..(r - 1) : req[p].pc # "new"
    /\ \E now \in Readings :
        LET rq0 == req[r] IN
        IF ImmediateAcquire(sema)
        THEN /\ Admit(r, rq0, [sema EXCEPT !.value = @ - 1], wait_queue)
             /\ UNCHANGED <<S, clock>>
        ELSE IF IsRejectMode(S.queue_mode)
        THEN /\ req' = [req EXCEPT ![r] = Rejected(rq0, 429, "GPU busy", 2)]
             /\ UNCHANGED <<S, sema, wait_queue, clock, ACTIVE, QUEUE_DEPTH>>
        ELSE IF QueueFull(wait_queue)
        THEN /\ req' = [req EXCEPT ![r] = Rejected(rq0, 429, "Queue full", 5)]
             /\ UNCHANGED <<S, sema, wait_queue, clock, ACTIVE, QUEUE_DEPTH>>
        ELSE LET rq1 == [rq0 EXCEPT !.wait_start = now, !.enqueued = @ + 1]
                 q1 == Append(wait_queue, now)
             IN /\ clock' = now
                /\ UNCHANGED S
                /\ IF ~Locked(sema)
                   THEN \* sema.acquire() returns without suspending
                        LET q2 == _drain_one(q1, now) IN
                        Admit(r, [rq1 EXCEPT !.drained = @ + (Len(q1) - Len(q2))],
                              AcquireStart(sema, r), q2)
                   ELSE /\ sema' = AcquireStart(sema, r)
                        /\ wait_queue' = q1
                        /\ QUEUE_DEPTH' = QueueDepthSet(q1)
                        /\ req' = [req EXCEPT ![r] = [rq1 EXCEPT !.pc = "acquire"]]
                        /\ UNCHANGED ACTIVE

QueueTimeoutNoCancel(r) ==
    /\ req[r].pc = "acquire"
    /\ req[r].must_cancel = "none"
    /\ req' = [req EXCEPT ![r].must_cancel = "timeout"]
    /\ UNCHANGED <<S, sema, wait_queue, clock, ACTIVE, QUEUE_DEPTH>>

\* queue_timeout_s elapses for a suspended waiter: its task is cancelled by
\* the timeout; a future that is still pending is cancelled with it.
QueueTimeout(r) ==
    /\ req[r].pc = "acquire"
    /\ req[r].must_cancel = "none"
    /\ req' = [req EXCEPT ![r].must_cancel = "timeout"]
    /\ sema' = IF sema.fut[r] = "pending"
               THEN [sema EXCEPT !.fut[r] = "cancelled"] ELSE sema
    /\ UNCHANGED <<S, wait_queue, clock, ACTIVE, QUEUE_DEPTH>>

\* The handler's task is cancelled from outside while it waits for a slot.
CancelWait(r) ==
    /\ req[r].pc = "acquire"
    /\ req[r].must_cancel = "none"
    /\ req' = [req EXCEPT ![r].must_cancel = "cancel"]
    /\ sema' = IF sema.fut[r] = "pending"
               THEN [sema EXCEPT !.fut[r] = "cancelled"] ELSE sema
    /\ UNCHANGED <<S, wait_queue, clock, ACTIVE, QUEUE_DEPTH>>

\* The waiter's task runs again: admitted, timed out or cancelled.
ResumeAcquire(r) ==
    /\ req[r].pc = "acquire"
    /\ sema.fut[r] \in {"set", "cancelled"}
    /\ LET rq == [req[r] EXCEPT !.handed_back =
                     IF req[r].must_cancel # "none" /\ sema.fut[r] = "set"
                     THEN @ + 1 ELSE @]
           sm == AcquireResume(sema, r, rq.must_cancel # "none")
       IN CASE rq.must_cancel = "none" ->
                 /\ LET q == _drain_one(wait_queue, rq.wait_start) IN
                    Admit(r, [rq EXCEPT !.drained = @ + (Len(wait_queue) - Len(q))],
                          sm, q)
                 /\ UNCHANGED <<S, clock>>
            [] rq.must_cancel = "timeout" ->
                 LET q == _drain_one(wait_queue, rq.wait_start) IN
                 /\ sema' = sm
                 /\ wait_queue' = q
                 /\ QUEUE_DEPTH' = QueueDepthSet(q)
                 /\ req' = [req EXCEPT ![r] =
                       [Rejected(rq, 503, "Queue timeout", 5) EXCEPT
                           !.wait_start = NoTicket,
                           !.drained = @ + (Len(wait_queue) - Len(q))]]
                 /\ UNCHANGED <<S, clock, ACTIVE>>
            [] rq.must_cancel = "cancel" ->
                 /\ sema' = sm
                 /\ req' = [req EXCEPT ![r] =
                       [rq EXCEPT !.pc = "cancelled", !.wait_start = NoTicket]]
                 /\ UNCHANGED <<S, wait_queue, clock, ACTIVE, QUEUE_DEPTH>>

\* ------------------------------------------------------------------ unary
UnaryResponse(r) ==
    /\ req[r].pc = "post"
    /\ \E code \in BackendStatuses :
          finalize(r, [req[r] EXCEPT !.resp = code], code, "done")

UnaryTransportErrorNoFinalize(r) ==
    /\ req[r].pc = "post"
    /\ req' = [req EXCEPT ![r] = [@ EXCEPT !.resp = 502, !.failed = TRUE,
                                           !.pc = "done"]]
    /\ UNCHANGED <<S, sema, wait_queue, clock, ACTIVE, QUEUE_DEPTH>>

\* An Exception of the transport: finalize("502") and a 502 answer.
UnaryTransportError(r) ==
    /\ req[r].pc = "post"
    /\ finalize(r, [req[r] EXCEPT !.resp = 502, !.failed = TRUE], 502, "done")

\* CancelledError while awaiting client.post: not an Exception, so the
\* except clause does not run and neither does finalize.
UnaryCancel(r) ==
    /\ req[r].pc = "post"
    /\ req' = [req EXCEPT ![r].pc = "cancelled"]
    /\ UNCHANGED <<S, sema, wait_queue, clock, ACTIVE, QUEUE_DEPTH>>

\* -------------------------------------------------------------- streaming
StreamPcs == {"s_open", "s_aread", "s_yield_err", "s_yield_done", "s_iter",
              "s_yield_chunk", "x_yield_err", "x_yield_done"}

Step(r, rq) ==
    /\ req' = [req EXCEPT ![r] = rq]
    /\ UNCHANGED <<S, sema, wait_queue, clock, ACTIVE, QUEUE_DEPTH>>

\* The backend's response headers arrive.
StreamHeaders(r) ==
    /\ req[r].pc = "s_open"
    /\ \E code \in BackendStatuses :
          Step(r, [req[r] EXCEPT !.status_for_metrics = code,
                                 !.pc = IF code # 200 THEN "s_aread" ELSE "s_iter"])

\* Non-200: the error body is read and the error event, which carries
\* r.status_code, is yielded.
StreamErrorEvent(r) ==
    /\ req[r].pc = "s_aread"
    /\ Step(r, [req[r] EXCEPT !.frames = Append(@, "error"),
                              !.event_status = req[r].status_for_metrics,
                              !.pc = "s_yield_err"])

StreamErrorDoneSkipped(r) ==
    /\ req[r].pc = "s_yield_err"
    /\ Step(r, [req[r] EXCEPT !.pc = "s_yield_done"])

StreamErrorDone(r) ==
    /\ req[r].pc = "s_yield_err"
    /\ Step(r, [req[r] EXCEPT !.frames = Append(@, "DONE"), !.pc = "s_yield_done"])

\* `return` after the two frames, then the finally clause.
StreamErrorReturn(r) ==
    /\ req[r].pc = "s_yield_done"
    /\ finalize(r, req[r], req[r].status_for_metrics, "done")

\* A chunk of the backend's stream is yielded to the caller.
StreamChunk(r) ==
    /\ req[r].pc = "s_iter"
    /\ req[r].chunks < MaxChunks
    /\ Step(r, [req[r] EXCEPT !.frames = Append(@, "chunk"), !.chunks = @ + 1,
                              !.pc = "s_yield_chunk"])

StreamNext(r) ==
    /\ req[r].pc = "s_yield_chunk"
    /\ Step(r, [req[r] EXCEPT !.pc = "s_iter"])

\* Clean end of the backend's stream.
StreamEnd(r) ==
    /\ req[r].pc = "s_iter"
    /\ finalize(r, req[r], req[r].status_for_metrics, "done")

StreamTransportErrorKeepStatus(r) ==
    /\ req[r].pc \in {"s_open", "s_aread", "s_iter"}
    /\ Step(r, [req[r] EXCEPT !.failed = TRUE,
                              !.frames = Append(@, "error"), !.pc = "x_yield_err"])

\* An Exception of the transport, before headers or mid-stream.
StreamTransportError(r) ==
    /\ req[r].pc \in {"s_open", "s_aread", "s_iter"}
    /\ Step(r, [req[r] EXCEPT !.status_for_metrics = 502, !.failed = TRUE,
                              !.frames = Append(@, "error"), !.pc = "x_yield_err"])

StreamExcDone(r) ==
    /\ req[r].pc = "x_yield_err"
    /\ Step(r, [req[r] EXCEPT !.frames = Append(@, "DONE"), !.pc = "x_yield_done"])

StreamExcReturn(r) ==
    /\ req[r].pc = "x_yield_done"
    /\ finalize(r, req[r], req[r].status_for_metrics, "done")

\* The caller disconnects: CancelledError at an await of the generator or
\* GeneratorExit at a yield.  Neither is an Exception; only the finally
\* clause runs.
StreamDisconnect(r) ==
    /\ req[r].pc \in StreamPcs
    /\ finalize(r, req[r], req[r].status_for_metrics, "cancelled")

Next ==
    \E r \in Requests :
        \/ ArriveBadJson(r)
        \/ Arrive(r)
        \/ QueueTimeout(r)
        \/ CancelWait(r)
        \/ ResumeAcquire(r)
        \/ UnaryResponse(r)
        \/ UnaryTransportError(r)
        \/ UnaryCancel(r)
        \/ StreamHeaders(r)
        \/ StreamErrorEvent(r)
        \/ StreamErrorDone(r)
        \/ StreamErrorReturn(r)
        \/ StreamChunk(r)
        \/ StreamNext(r)
        \/ StreamEnd(r)
        \/ StreamTransportError(r)
        \/ StreamExcDone(r)
        \/ StreamExcReturn(r)
        \/ StreamDisconnect(r)

Spec == Init /\ [][Next]_vars

\* ------------------------------------------------------------ observables
\* Slots taken from the pool.
Held == S.max_active - sema.value

Arrived(r) == req[r].pc # "new"
Terminated(r) == req[r].pc \in {"done", "cancelled"}
Holder(r) == req[r].acquired > req[r].released
Woken(r) == sema.fut[r] = "set"

\* r leaves "new" in this step with a body that parsed as JSON.
Arrives(r) == req[r].pc = "new" /\ req'[r].pc # "new" /\ req'[r].resp # 400

TypeOK ==
    /\ sema.value \in Int
    /\ ACTIVE \in Int
    /\ QUEUE_DEPTH \in Nat
    /\ \A r \in Requests : req[r].pc \in
          {"new", "acquire", "post", "done", "cancelled"} \cup StreamPcs

\* ----------------------------------------------------------------- claims

\* C1: in every reachable state the number of held slots is between 0 and
\* max_active, i.e. the semaphore's free count stays in 0..max_active.
C1_HeldWithinMaxActive ==
    /\ sema.value >= 0
    /\ sema.value <= S.max_active

\* C1 witness: the pool is exhausted while a request waits in the queue,
\* after one slot was released by finalize and one waiter timed out.
C1_Witness ==
    /\ Held = S.max_active
    /\ \E r \in Requests : req[r].pc = "acquire"
    /\ \E r \in Requests : req[r].finalized = 1
    /\ \E r \in Requests : req[r].resp = 503

\* C2 (as claimed): for every queue_max >= 0, queue_max = 0 included, the
\* wait queue never holds more than queue_max tickets.
C2_QueueWithinQueueMax == Len(wait_queue) <= S.queue_max

\* C3 (as claimed): a terminated request has released the slot exactly as
\* often as it acquired it, and no request releases more than it acquired.
C3_ReleasedExactlyOnce ==
    \A r \in Requests :
        /\ req[r].released <= req[r].acquired
        /\ Terminated(r) => req[r].released = req[r].acquired

\* C4 (as claimed): a ticket is drained at most once, and a caller that has
\* stopped waiting, whatever the reason, has drained the ticket it enqueued.
C4_TicketRemovedExactlyOnce ==
    \A r \in Requests :
        /\ req[r].drained <= req[r].enqueued
        /\ req[r].pc # "acquire" => req[r].drained = req[r].enqueued

\* C5 (as claimed): a request that calls Acquire while a slot is free is
\* admitted in that step, creates no ticket and leaves the wait queue alone,
\* in queue mode and in reject mode.
C5_ImmediateWhenFree ==
    [][\A r \in Requests :
          (Arrives(r) /\ sema.value > 0) =>
              /\ req'[r].acquired = 1
              /\ req'[r].enqueued = 0
              /\ wait_queue' = wait_queue]_vars

C7_QueueFullAtQueueMax ==
    [][S.queue_mode = "queue" =>
         \A r \in Requests :
            (Arrives(r) /\ sema.value = 0 /\ Len(wait_queue) >= S.queue_max) =>
                /\ req'[r].pc = "done"
                /\ req'[r].resp = 429
                /\ req'[r].message = "Queue full"
                /\ req'[r].retry_after = 5
                /\ req'[r].enqueued = 0
                /\ req'[r].acquired = 0
                /\ wait_queue' = wait_queue]_vars

\* C8: a request answered Busy, QueueFull or QueueTimeout holds no slot and
\* never ran finalize, and every slot taken from the pool belongs to an
\* admitted request or to a waiter it was just handed to: a timeout that
\* races with the hand-off gives the slot back.
C8_NoSlotAfterAdmissionError ==
    /\ \A r \in Requests :
          req[r].resp \in {429, 503} =>
              /\ req[r].pc = "done"
              /\ req[r].acquired = 0
              /\ req[r].finalized = 0
              /\ req[r].released = 0
              /\ ~Woken(r)
    /\ Held = Cardinality({r \in Requests : Holder(r)})
               + Cardinality({r \in Requests : Woken(r)})

\* C8 witness: a waiter timed out after the slot had been handed to it and
\* was answered QueueTimeout, and another request was answered QueueFull.
C8_Witness ==
    /\ \E r \in Requests : req[r].resp = 503 /\ req[r].handed_back = 1
    /\ \E r \in Requests : req[r].resp = 429 /\ req[r].message = "Queue full"

\* C9: the queue-depth gauge equals the size of the wait queue in every
\* state another request can observe, so after every enqueue and removal.
C9_QueueDepthIsQueueSize == QUEUE_DEPTH = Len(wait_queue)

\* C9 witness: a ticket was enqueued and another removed on the timeout
\* path, and one ticket is still queued.
C9_Witness ==
    /\ Len(wait_queue) >= 1
    /\ \E r \in Requests : req[r].resp = 503 /\ req[r].drained = 1
    /\ \E r \in Requests : req[r].pc = "acquire" /\ req[r].enqueued = 1

\* C10 (as claimed): a streamed request whose caller disconnected after
\* chunks were relayed ran finalize once, with status 502.
C10_DisconnectFinalizes502 ==
    \A r \in Requests :
        (/\ req[r].pc = "cancelled"
         /\ req[r].stream
         /\ req[r].frames # <<>>
         /\ \A i \in 1..Len(req[r].frames) : req[r].frames[i] = "chunk") =>
            /\ req[r].finalized = 1
            /\ req[r].released = 1
            /\ req[r].labels = <<502>>

\* The frames before the last n of a request's stream.
Before(frames, n) == SubSeq(frames, 1, Len(frames) - n)

OnlyChunks(frames) == \A i \in 1..Len(frames) : frames[i] = "chunk"

\* C11: a streamed request whose backend answered a non-200 status and whose
\* error body was read sends one error event carrying that status, then one
\* [DONE] frame and nothing else, and finalize runs once with that status;
\* a caller that disconnects meanwhile has received a prefix of the two.
C11_StreamBackendError ==
    \A r \in Requests :
        /\ req[r].pc = "s_aread" =>
              req[r].frames = <<>> /\ req[r].status_for_metrics # 200
        /\ req[r].event_status # 0 =>
              /\ req[r].stream
              /\ req[r].event_status # 200
              /\ req[r].event_status = req[r].status_for_metrics
              /\ req[r].pc = "s_yield_err" => req[r].frames = <<"error">>
              /\ req[r].pc \in {"s_yield_done", "done"} =>
                    req[r].frames = <<"error", "DONE">>
              /\ req[r].pc = "cancelled" =>
                    req[r].frames \in {<<"error">>, <<"error", "DONE">>}
              /\ Terminated(r) =>
                    /\ req[r].finalized = 1
                    /\ req[r].labels = <<req[r].event_status>>
              /\ ~Terminated(r) => req[r].finalized = 0

\* C11 witness: the backend answered 500 to a streamed request, both frames
\* were sent and finalize ran.
C11_Witness ==
    \E r \in Requests :
        /\ req[r].pc = "done"
        /\ req[r].event_status = 500
        /\ req[r].frames = <<"error", "DONE">>
        /\ req[r].labels = <<500>>

\* C12: a streamed request whose transport failed and whose caller stayed
\* connected ends with one synthesized error event and one [DONE] frame
\* after the chunks already relayed, and finalize ran once with 502; on a
\* clean end of stream only chunks were sent and finalize ran once with the
\* status recorded at the headers.
C12_StreamTransportFailure ==
    \A r \in Requests :
      /\ (req[r].stream /\ req[r].failed /\ Terminated(r)) =>
            (req[r].finalized = 1 /\ req[r].labels = <<502>>)
      /\ (req[r].stream /\ req[r].pc = "done") =>
            /\ req[r].finalized = 1
            /\ req[r].failed =>
                  /\ Len(req[r].frames) >= 2
                  /\ req[r].frames[Len(req[r].frames) - 1] = "error"
                  /\ req[r].frames[Len(req[r].frames)] = "DONE"
                  /\ OnlyChunks(Before(req[r].frames, 2))
                  /\ req[r].event_status = 0
                  /\ req[r].labels = <<502>>
            /\ (~req[r].failed /\ req[r].event_status = 0) =>
                  /\ OnlyChunks(req[r].frames)
                  /\ req[r].labels = <<200>>
                  /\ req[r].status_for_metrics = 200

\* C12 witness: the transport failed after a chunk had been relayed.
C12_Witness ==
    \E r \in Requests :
        /\ req[r].pc = "done"
        /\ req[r].failed
        /\ req[r].frames = <<"chunk", "error", "DONE">>

\* C13: a unary request that was answered ran finalize once, and the label
\* finalize recorded is the status sent to the caller: the backend's status
\* when the transport succeeded, non-2xx included, and 502 when it failed.
C13_UnaryLabelIsStatus ==
    \A r \in Requests :
        /\ (req[r].pc = "done" /\ req[r].acquired = 1 /\ ~req[r].stream) =>
              /\ req[r].finalized = 1
              /\ req[r].labels = <<req[r].resp>>
              /\ req[r].failed => req[r].resp = 502
              /\ ~req[r].failed => req[r].resp \in BackendStatuses
        /\ (req[r].pc = "post") => (req[r].resp = 0 /\ req[r].finalized = 0)

\* C13 witness: a backend 500 was passed through and a transport failure
\* was answered 502.
C13_Witness ==
    /\ \E r \in Requests : req[r].resp = 500 /\ req[r].labels = <<500>>
                            /\ ~req[r].stream
    /\ \E r \in Requests : req[r].resp = 502 /\ req[r].failed /\ ~req[r].stream

\* C14: a request with a malformed JSON body is answered 400 in one step
\* that leaves the slot pool, the wait queue, both observables and every
\* other request unchanged; it never acquires a slot, never enqueues a
\* ticket, never starts a backend call and never runs finalize.
C14_BadJsonStep ==
    \A r \in Requests :
        (req[r].pc = "new" /\ req'[r].resp = 400) =>
            /\ sema' = sema
            /\ wait_queue' = wait_queue
            /\ ACTIVE' = ACTIVE
            /\ QUEUE_DEPTH' = QUEUE_DEPTH
            /\ \A p \in Requests \ {r} : req'[p] = req[p]
            /\ req'[r].pc = "done"
            /\ req'[r].message = "invalid_json"

C14_BadJsonState ==
    \A r \in Requests :
        req[r].resp = 400 =>
            /\ req[r].pc = "done"
            /\ req[r].acquired = 0 /\ req[r].enqueued = 0
            /\ req[r].finalized = 0 /\ req[r].labels = <<400>>
            /\ req[r].frames = <<>> /\ req[r].wait_start = NoTicket
            /\ sema.fut[r] = "none"

C14_BadJsonNoAdmission == []C14_BadJsonState /\ [][C14_BadJsonStep]_vars

\* C14 witness: a request was answered 400 while another request holds the
\* only slot and a third one waits in the queue.
C14_Witness ==
    \E r, h, w \in Requests :
        /\ req[r].resp = 400
        /\ req[h].pc = "post" /\ ACTIVE = 1
        /\ req[w].pc = "acquire" /\ Len(wait_queue) = 1

\* The slots held by admitted requests: the held slots less those handed
\* to a waiter that has not run yet.
HeldByAdmitted == Held - Cardinality({p \in Requests : Woken(p)})

\* q without its i-th item.
WithoutItem(q, i) == SubSeq(q, 1, i - 1) \o SubSeq(q, i + 1, Len(q))

\* C15: a queue timeout of one waiting caller, both when the timer fires
\* and when the caller then runs and answers 503, leaves every other
\* request, the active-request observable and the slots held by admitted
\* requests unchanged, takes no slot, and removes from the wait queue one
\* ticket with the caller's own timestamp and no other; an admitted unary
\* request can complete in every state.
C15_TimeoutStep ==
    \A r \in Requests :
        /\ (req[r].must_cancel = "none" /\ req'[r].must_cancel = "timeout") =>
              /\ \A p \in Requests \ {r} :
                    req'[p] = req[p] /\ sema'.fut[p] = sema.fut[p]
              /\ sema'.value = sema.value
              /\ wait_queue' = wait_queue
              /\ ACTIVE' = ACTIVE /\ QUEUE_DEPTH' = QUEUE_DEPTH
        /\ (req[r].pc = "acquire" /\ req'[r].resp = 503) =>
              /\ \A p \in Requests \ {r} : req'[p] = req[p]
              /\ ACTIVE' = ACTIVE
              /\ HeldByAdmitted' = HeldByAdmitted
              /\ sema'.value >= sema.value
              /\ \E i \in 1..Len(wait_queue) :
                    /\ wait_queue[i] = req[r].wait_start
                    /\ wait_queue' = WithoutItem(wait_queue, i)
              /\ req'[r].acquired = 0 /\ req'[r].message = "Queue timeout"

C15_AdmittedCanComplete ==
    \A p \in Requests : req[p].pc = "post" => ENABLED UnaryResponse(p)

FairSpec ==
    /\ Spec
    /\ \A r \in Requests : WF_vars(QueueTimeout(r)) /\ WF_vars(ResumeAcquire(r))

\* No waiter future is pending while the semaphore has a free slot.
C16_NoWaiterWhileFree ==
    \A r \in Requests : ~(sema.fut[r] = "pending" /\ sema.value > 0)

\* A caller whose task was not cancelled from outside leaves the wait either
\* admitted with a slot or answered 503 "Queue timeout".
C16_LeaveStep ==
    \A r \in Requests :
        (req[r].pc = "acquire" /\ req'[r].pc # "acquire"
                               /\ req[r].must_cancel # "cancel") =>
            \/ /\ req[r].must_cancel = "none"
               /\ req'[r].pc \in {"post", "s_open"}
               /\ req'[r].acquired = 1 /\ req'[r].released = 0
            \/ /\ req[r].must_cancel = "timeout"
               /\ req'[r].pc = "done" /\ req'[r].resp = 503
               /\ req'[r].message = "Queue timeout"

C17_BaselineWhenAllTerminated ==
    (\A r \in Requests : Arrived(r) => Terminated(r)) =>
        /\ Held = 0
        /\ ACTIVE = 0
        /\ wait_queue = <<>>
        /\ QUEUE_DEPTH = 0

\* The callers suspended at line 117 after this step.
StillWaiting == {p \in Requests : req'[p].pc = "acquire"}

\* C18: when a caller leaves the wait admitted or timed out, _drain_one
\* removes the first ticket equal to its timestamp and no other, keeps the
\* order of the rest, and leaves a queue one shorter whose size is the
\* number of callers still waiting.
C18_DrainStep ==
    \A r \in Requests :
        (req[r].pc = "acquire" /\ req'[r].pc \in {"post", "s_open", "done"}) =>
            \E i \in 1..Len(wait_queue) :
                /\ wait_queue[i] = req[r].wait_start
                /\ \A j \in 1..(i - 1) : wait_queue[j] # req[r].wait_start
                /\ wait_queue' = WithoutItem(wait_queue, i)
                /\ Len(wait_queue') = Len(wait_queue) - 1
                /\ Len(wait_queue') = Cardinality(StillWaiting)

C18_DrainRemovesOwnTicket == [][C18_DrainStep]_vars

\* C19: the active-request observable counts exactly the requests that
\* hold a slot between their admission and their finalize, so
\* 0 <= ACTIVE <= held slots <= max_active in every state.
C19_ActiveWithinHeld ==
    /\ ACTIVE = Cardinality({r \in Requests : Holder(r)})
    /\ 0 <= ACTIVE
    /\ ACTIVE <= Held
    /\ Held <= S.max_active

\* C19 witness: two slots are held, one by an admitted request and one
\* handed to a waiter that has not been counted as active yet.
C19_Witness ==
    /\ ACTIVE = 1
    /\ Held = 2
    /\ \E r \in Requests : Woken(r)

====
